---- MODULE Spec2Model ----
(***************************************************************************)
(* A model of the Observable of src/main.cpp: the factories of, from,      *)
(* throwError and map, subscribe with its four subscribe handlers,         *)
(* unsubscribe, and the two observers of the file: IntObserver, which      *)
(* prints, and IntMapObserver, the mapping stage.                          *)
(*                                                                         *)
(* The program is single threaded and subscribe runs to its end before it  *)
(* returns, so every call of the caller is one action.  Inside a call the  *)
(* statements run in the order of the code: each method is an operator     *)
(* from the state S it finds to the state it leaves, and every printed     *)
(* line records whether the emitting Observable was still live when the    *)
(* line was printed.                                                       *)
(***************************************************************************)
EXTENDS Integers, Sequences, FiniteSets, TLC

\* ------------------------------------------------------------- bounds
MaxRoots == 1               \* Observables the caller makes with of, from, throwError
MaxMaps == 2                \* Observables the caller makes with map
MaxLen == 2                 \* length of the caller's int array
Values == {1, -2}           \* the int values the caller stores
Literals == {1}             \* the int literals the caller passes (main.cpp:308)
Errs == {1, 2}              \* identities of the strings a char const * may point to
msg == 1                    \* the string the caller's char const * variable holds
IntMax == 2147483647        \* the largest int; the smallest is -IntMax - 1
Wrapped == {-2, 0}          \* the ints an overflowed multiplication may be taken to yield
IntObservers == {1, 2}      \* the caller's IntObserver objects
Stages == {1, 2}            \* the caller's IntMapObserver objects

StageRoots == 2             \* the same two bounds where stages are reused
StageMaps == 2

\* the addresses of the Observables the caller can make within the bounds
ObsIds ==
  1..(IF MaxRoots + MaxMaps > StageRoots + StageMaps THEN MaxRoots + MaxMaps
      ELSE StageRoots + StageMaps)

\* ------------------------------------------------------------- state
VARIABLES
  heap,           \* ObsIds -> the fields of each Observable (main.cpp:75-80)
  nobs,           \* number of Observables constructed so far
  stage,          \* Stages -> the fields of each IntMapObserver
  mem,            \* the caller's int array (series, main.cpp:325)
  out,            \* IntObservers -> the lines each one has printed
  subscriptions,  \* the Subscription handles subscribe has returned
  fault,          \* the process has ended in a fault (null read, stack overflow)
  call,           \* history: the caller's last step, if it was a subscribe
  delivered,      \* history: the Observables a subscribe has emitted through
  made            \* history: for each live Observable that refers to the caller's
                  \* array, the array as it was when the Observable was made

vars == <<heap, nobs, stage, mem, out, subscriptions, fault, call, delivered, made>>

\* ------------------------------------------------------------- pointers
\* A pointer is null, the address of a cell of the caller's, or the address of
\* a temporary whose lifetime ended with the full expression that made the
\* Observable; a names the cell, or the value the temporary held.
NullPtr == [k |-> "null", a |-> 0]
CellPtr(n) == [k |-> "cell", a |-> n]
TempPtr(v) == [k |-> "temp", a |-> v]

\* observers are addressed by class and number
NoObserver == [kind |-> "none", id |-> 0]
IntObs(o) == [kind |-> "IntObserver", id |-> o]
MapObs(s) == [kind |-> "IntMapObserver", id |-> s]

\* Observable::Observable()
Observable ==
  [subscribeHandler |-> "nullptr", mappingObserver |-> 0, mappingObservable |-> 0,
   values |-> NullPtr, valuesCount |-> 0, err |-> NullPtr]

\* IntMapObserver::IntMapObserver(); observer is not initialised
IntMapObserver == [forward |-> TRUE, observer |-> NoObserver]

NoCall ==
  [target |-> 0, obs |-> 0, ret |-> 0, root |-> 0, chain |-> {}, stageCalls |-> 0,
   nextCalls |-> 0, nextOn |-> [s \in Stages |-> 0], out0 |-> [o \in IntObservers |-> <<>>],
   stage0 |-> [s \in Stages |-> IntMapObserver],
   heap0 |-> [x \in ObsIds |-> Observable], delivered0 |-> {},
   made0 |-> [x \in ObsIds |-> <<>>]]

Init ==
  /\ heap = [x \in ObsIds |-> Observable]
  /\ nobs = 0
  /\ stage = [s \in Stages |-> IntMapObserver]
  /\ mem \in [1..MaxLen -> Values]
  /\ out = [o \in IntObservers |-> <<>>]
  /\ subscriptions = {}
  /\ fault = FALSE
  /\ call = NoCall
  /\ delivered = {}
  /\ made = [x \in ObsIds |-> <<>>]

\* ------------------------------------------------------------- observers
\* The state a subscribe call works on: the Observables, the stages, the
\* printed lines, the fault flag, the value returned, and as history the
\* subscribed Observable (via), the emitting one (root), the Observables whose
\* subscribe was entered (chain), the numbers of IntMapObserver methods
\* (stageCalls) and IntMapObserver::next calls (nextCalls, and nextOn for each
\* stage) entered; und is what an operation whose result is undefined yields
\* during this call.
Enter(x, und) ==
  [heap |-> heap, stage |-> stage, out |-> out, fault |-> fault, ret |-> 0,
   via |-> x, root |-> 0, chain |-> {}, stageCalls |-> 0, nextCalls |-> 0,
   nextOn |-> [s \in Stages |-> 0], und |-> und]

Fault(S) == [S EXCEPT !.fault = TRUE]

\* one printed line; live tells whether the emitting Observable still had its
\* subscribe handler when the line was printed
Line(S, m, arg) ==
  [m |-> m, arg |-> arg, root |-> S.root, via |-> S.via,
   live |-> S.heap[S.root].subscribeHandler # "nullptr"]

\* IntObserver::next
IntObserver_next(S, o, value) == [S EXCEPT !.out[o] = Append(@, Line(S, "next", value))]

\* IntObserver::error
IntObserver_error(S, o, err) == [S EXCEPT !.out[o] = Append(@, Line(S, "error", err))]

\* IntObserver::complete
IntObserver_complete(S, o) == [S EXCEPT !.out[o] = Append(@, Line(S, "complete", 0))]

\* a stage that is entered while as many stage frames as there are stages are
\* on the stack is on the stack twice: its observer chain is a cycle, the
\* recursion does not end and the stack overflows
StackDepth == Cardinality(Stages)

RECURSIVE Observer_next(_, _, _, _)
RECURSIVE Observer_error(_, _, _, _)
RECURSIVE Observer_complete(_, _, _)

\* 2 * value of two ints does not fit an int
Overflows(value) == value > IntMax \div 2 \/ value < -(IntMax \div 2) - 1

\* a faulty variant of Twice: the value is forwarded as it is
Twice_same(S, value) == value

\* 2 * value in int arithmetic: signed overflow is undefined
Twice(S, value) == IF Overflows(value) THEN S.und ELSE 2 * value

\* a faulty variant of IntMapObserver_next: every value is forwarded
IntMapObserver_next_all(S, s, value, depth) ==
  Observer_next([S EXCEPT !.stageCalls = @ + 1, !.nextCalls = @ + 1, !.nextOn[s] = @ + 1],
                S.stage[s].observer, Twice(S, value), depth)

\* IntMapObserver::next
IntMapObserver_next(S, s, value, depth) ==
  LET S0 == [S EXCEPT !.stageCalls = @ + 1, !.nextCalls = @ + 1, !.nextOn[s] = @ + 1]
      S1 == IF S0.stage[s].forward
            THEN Observer_next(S0, S0.stage[s].observer, Twice(S0, value), depth)
            ELSE S0
  IN  IF S1.fault THEN S1 ELSE [S1 EXCEPT !.stage[s].forward = ~@]

\* a faulty variant of IntMapObserver_error: complete is forwarded as well
IntMapObserver_error_completes(S, s, err, depth) ==
  LET S1 == Observer_error([S EXCEPT !.stageCalls = @ + 1], S.stage[s].observer, err, depth)
  IN  IF S1.fault THEN S1 ELSE Observer_complete(S1, S.stage[s].observer, depth)

\* IntMapObserver::error
IntMapObserver_error(S, s, err, depth) ==
  Observer_error([S EXCEPT !.stageCalls = @ + 1], S.stage[s].observer, err, depth)

\* IntMapObserver::complete
IntMapObserver_complete(S, s, depth) ==
  Observer_complete([S EXCEPT !.stageCalls = @ + 1], S.stage[s].observer, depth)

\* observer->next(value): the virtual call
Observer_next(S, observer, value, depth) ==
  IF observer.kind = "IntObserver" THEN IntObserver_next(S, observer.id, value)
  ELSE IF observer.kind = "IntMapObserver" /\ depth > 0
       THEN IntMapObserver_next(S, observer.id, value, depth - 1)
       ELSE Fault(S)

\* observer->error(err): the virtual call
Observer_error(S, observer, err, depth) ==
  IF observer.kind = "IntObserver" THEN IntObserver_error(S, observer.id, err)
  ELSE IF observer.kind = "IntMapObserver" /\ depth > 0
       THEN IntMapObserver_error(S, observer.id, err, depth - 1)
       ELSE Fault(S)

\* observer->complete(): the virtual call
Observer_complete(S, observer, depth) ==
  IF observer.kind = "IntObserver" THEN IntObserver_complete(S, observer.id)
  ELSE IF observer.kind = "IntMapObserver" /\ depth > 0
       THEN IntMapObserver_complete(S, observer.id, depth - 1)
       ELSE Fault(S)

\* ------------------------------------------------------------- subscribe
\* a faulty variant of ReadInt: the index is dropped
ReadInt_first(p, k, und) == IF p.k = "cell" THEN mem[p.a] ELSE und

\* p[k] read as an int: a cell of the caller's holds its value; a read through
\* the address of a dead temporary is undefined and yields und
ReadInt(p, k, und) == IF p.k = "cell" THEN mem[p.a + k] ELSE und

\* *p read as an error
ReadErr(p, und) == IF p.k = "cell" THEN msg ELSE und

\* a faulty variant of Completed: the handler is left in place
Completed_keepsHandler(S, this) == [S EXCEPT !.ret = this]

\* subscribeHandler = nullptr; return this;
Completed(S, this) == [S EXCEPT !.heap[this].subscribeHandler = "nullptr", !.ret = this]

\* a faulty variant of subscribeHandler_of: the value emitted is the one the
\* caller's storage held when the Observable was made, as if of had copied it
subscribeHandler_of_copied(S, this, observer, und) ==
  LET p == S.heap[this].values
      S0 == [S EXCEPT !.root = this]
      S1 == IF p.k = "null" THEN Fault(S0)
            ELSE Observer_next(S0, observer,
                               IF p.k = "cell" THEN made[this][p.a] ELSE und, StackDepth)
      S2 == IF S1.fault THEN S1 ELSE Observer_complete(S1, observer, StackDepth)
  IN  IF S2.fault THEN S2 ELSE Completed(S2, this)

\* Observable::subscribeHandler_of
subscribeHandler_of(S, this, observer, und) ==
  LET p == S.heap[this].values
      S0 == [S EXCEPT !.root = this]
      S1 == IF p.k = "null" THEN Fault(S0)
            ELSE Observer_next(S0, observer, ReadInt(p, 0, und), StackDepth)
      S2 == IF S1.fault THEN S1 ELSE Observer_complete(S1, observer, StackDepth)
  IN  IF S2.fault THEN S2 ELSE Completed(S2, this)

RECURSIVE from_loop(_, _, _, _, _)
\* the for loop of subscribeHandler_from, from i on
from_loop(S, this, observer, i, und) ==
  IF S.fault \/ i >= S.heap[this].valuesCount THEN S
  ELSE LET p == S.heap[this].values
           S1 == IF p.k = "null" THEN Fault(S)
                 ELSE Observer_next(S, observer, ReadInt(p, i, und), StackDepth)
       IN  from_loop(S1, this, observer, i + 1, und)

\* Observable::subscribeHandler_from
subscribeHandler_from(S, this, observer, und) ==
  LET S1 == from_loop([S EXCEPT !.root = this], this, observer, 0, und)
      S2 == IF S1.fault THEN S1 ELSE Observer_complete(S1, observer, StackDepth)
  IN  IF S2.fault THEN S2 ELSE Completed(S2, this)

\* a faulty variant of subscribeHandler_throwError: the handler is cleared
\* before complete is called
subscribeHandler_throwError_early(S, this, observer, und) ==
  LET p == S.heap[this].err
      S0 == [S EXCEPT !.root = this]
      S1 == IF p.k = "null" THEN Fault(S0)
            ELSE Observer_error(S0, observer, ReadErr(p, und), StackDepth)
      S2 == IF S1.fault THEN S1 ELSE Observer_complete(Completed(S1, this), observer, StackDepth)
  IN  S2

\* Observable::subscribeHandler_throwError
subscribeHandler_throwError(S, this, observer, und) ==
  LET p == S.heap[this].err
      S0 == [S EXCEPT !.root = this]
      S1 == IF p.k = "null" THEN Fault(S0)
            ELSE Observer_error(S0, observer, ReadErr(p, und), StackDepth)
      S2 == IF S1.fault THEN S1 ELSE Observer_complete(S1, observer, StackDepth)
  IN  IF S2.fault THEN S2 ELSE Completed(S2, this)

RECURSIVE Observable_subscribe(_, _, _, _)

\* a faulty variant of subscribeHandler_map: the stage is reset for each
\* subscription
subscribeHandler_map_resets(S, this, observer, und) ==
  LET mappingObserver == S.heap[this].mappingObserver
  IN  Observable_subscribe([S EXCEPT !.stage[mappingObserver] =
                                       [forward |-> TRUE, observer |-> observer]],
                           S.heap[this].mappingObservable, MapObs(mappingObserver), und)

\* a faulty variant of subscribeHandler_map: the Subscription returned is the
\* mapped Observable's own
subscribeHandler_map_this(S, this, observer, und) ==
  LET mappingObserver == S.heap[this].mappingObserver
      S1 == Observable_subscribe([S EXCEPT !.stage[mappingObserver].observer = observer],
                                 S.heap[this].mappingObservable, MapObs(mappingObserver), und)
  IN  [S1 EXCEPT !.ret = this]

\* Observable::subscribeHandler_map
subscribeHandler_map(S, this, observer, und) ==
  LET mappingObserver == S.heap[this].mappingObserver
  IN  Observable_subscribe([S EXCEPT !.stage[mappingObserver].observer = observer],
                           S.heap[this].mappingObservable, MapObs(mappingObserver), und)

\* a faulty variant of Observable_subscribe: a completed Observable tells a
\* late subscriber that it is complete
Observable_subscribe_replays(S, this, observer, und) ==
  LET S0 == [S EXCEPT !.chain = @ \cup {this}]
      subscribeHandler == S0.heap[this].subscribeHandler
  IN  IF subscribeHandler # "nullptr"
      THEN CASE subscribeHandler = "of" -> subscribeHandler_of(S0, this, observer, und)
             [] subscribeHandler = "from" -> subscribeHandler_from(S0, this, observer, und)
             [] subscribeHandler = "throwError" ->
                  subscribeHandler_throwError(S0, this, observer, und)
             [] subscribeHandler = "map" -> subscribeHandler_map(S0, this, observer, und)
      ELSE [Observer_complete([S0 EXCEPT !.root = this], observer, StackDepth)
              EXCEPT !.ret = this]

\* Observable::subscribe
Observable_subscribe(S, this, observer, und) ==
  LET S0 == [S EXCEPT !.chain = @ \cup {this}]
      subscribeHandler == S0.heap[this].subscribeHandler
  IN  IF subscribeHandler # "nullptr"
      THEN CASE subscribeHandler = "of" -> subscribeHandler_of(S0, this, observer, und)
             [] subscribeHandler = "from" -> subscribeHandler_from(S0, this, observer, und)
             [] subscribeHandler = "throwError" ->
                  subscribeHandler_throwError(S0, this, observer, und)
             [] subscribeHandler = "map" -> subscribeHandler_map(S0, this, observer, und)
      ELSE [S0 EXCEPT !.ret = this]

RECURSIVE Upstream(_)
\* the Observable at the upstream end of x's chain of mappingObservable
Upstream(x) == IF heap[x].mappingObservable = 0 THEN x ELSE Upstream(heap[x].mappingObservable)

\* what the one undefined read of a subscribe on x may yield
Undefined(x) ==
  LET u == heap[Upstream(x)]
  IN  IF u.subscribeHandler = "of" /\ u.values.k = "temp" THEN Values
      ELSE IF u.subscribeHandler = "throwError" /\ u.err.k = "temp" THEN Errs
      ELSE IF /\ heap[x].mappingObservable # 0
              /\ u.subscribeHandler \in {"of", "from"}
              /\ \E n \in DOMAIN mem : Overflows(mem[n])
           THEN Wrapped
           ELSE {0}

\* ------------------------------------------------------------- the caller
Running == ~fault

\* a caller's step other than subscribe
Step ==
  /\ Running
  /\ call' = NoCall
  /\ UNCHANGED <<fault, delivered>>

\* the expressions the caller passes to of: an element of its array, or a
\* literal (main.cpp:308), for which a temporary is materialised
OfArgs == {CellPtr(n) : n \in DOMAIN mem} \cup {TempPtr(v) : v \in Literals}

\* the (pointer, count) pairs the caller passes to from: its array and a
\* count within it (main.cpp:326)
FromArgs == {<<CellPtr(1), c>> : c \in 0..MaxLen}

\* the array and the count of main's test cases (main.cpp:325-326)
Series == <<1, -2, 3, -4, 5, -6, 7>>
SeriesCount == 7

\* the expressions the caller passes to throwError: its variable, or a string
\* literal (main.cpp:367), for which a temporary pointer is materialised
ThrowErrorArgs == {CellPtr(1), TempPtr(msg)}

\* the Observables made by of, from and throwError, and those made by map
Roots == {x \in 1..nobs : heap[x].mappingObservable = 0}
Maps == {x \in 1..nobs : heap[x].mappingObservable # 0}

\* new Observable() followed by the factory's assignments
New(o) ==
  /\ Step
  /\ nobs' = nobs + 1
  /\ heap' = [heap EXCEPT ![nobs + 1] = o]
  /\ made' = [made EXCEPT ![nobs + 1] = IF o.values.k = "cell" THEN mem ELSE <<>>]
  /\ UNCHANGED <<stage, mem, out, subscriptions>>

\* Observable::of
of(value) == New([Observable EXCEPT !.subscribeHandler = "of", !.values = value])

\* Observable::from
from(values, count) ==
  New([Observable EXCEPT !.subscribeHandler = "from", !.values = values,
                         !.valuesCount = count])

\* Observable::throwError
throwError(err) == New([Observable EXCEPT !.subscribeHandler = "throwError", !.err = err])

\* a faulty variant of map: the upstream is marked completed by the map
map_completes(this, mappingObserver) ==
  /\ Step
  /\ nobs' = nobs + 1
  /\ heap' = [heap EXCEPT ![nobs + 1] = [Observable EXCEPT !.subscribeHandler = "map",
                                                           !.mappingObserver = mappingObserver,
                                                           !.mappingObservable = this],
                          ![this].subscribeHandler = "nullptr"]
  /\ UNCHANGED <<stage, mem, out, subscriptions, made>>

\* Observable::map
map(this, mappingObserver) ==
  New([Observable EXCEPT !.subscribeHandler = "map",
                         !.mappingObserver = mappingObserver,
                         !.mappingObservable = this])

\* the caller assigns to an element of its array; the array is read through
\* live Observables only, so assignments made when none refers to it are left out
assign(n, v) ==
  /\ Step
  /\ mem[n] # v
  /\ \E x \in 1..nobs : heap[x].subscribeHandler \in {"of", "from"} /\ heap[x].values.k = "cell"
  /\ mem' = [mem EXCEPT ![n] = v]
  /\ UNCHANGED <<heap, nobs, stage, out, subscriptions, made>>

\* the caller's x->subscribe(o), from the call to its return
subscribe(x, o) ==
  /\ Running
  /\ \E und \in Undefined(x) :
       LET S == Observable_subscribe(Enter(x, und), x, IntObs(o), und)
       IN  /\ heap' = S.heap
           /\ stage' = S.stage
           /\ out' = S.out
           /\ fault' = S.fault
           /\ subscriptions' = IF S.fault THEN subscriptions ELSE subscriptions \cup {S.ret}
           /\ delivered' = IF S.fault \/ S.root = 0 THEN delivered ELSE delivered \cup S.chain
           /\ made' = [y \in ObsIds |->
                        IF S.heap[y].subscribeHandler = "nullptr" THEN <<>> ELSE made[y]]
           /\ call' = [target |-> x, obs |-> o, ret |-> S.ret, root |-> S.root,
                       chain |-> S.chain, stageCalls |-> S.stageCalls,
                       nextCalls |-> S.nextCalls, nextOn |-> S.nextOn, out0 |-> out, stage0 |-> stage,
                       heap0 |-> heap, delivered0 |-> delivered, made0 |-> made]
  /\ UNCHANGED <<nobs, mem>>

\* a faulty variant of Observable_unsubscribe: one value is dropped per call
Observable_unsubscribe_one(o) ==
  [o EXCEPT !.valuesCount = IF @ > 0 THEN @ - 1 ELSE 0,
            !.values = IF o.valuesCount > 1 THEN @ ELSE NullPtr, !.err = NullPtr]

\* Observable::unsubscribe: the fields of the object after the call
Observable_unsubscribe(o) == [o EXCEPT !.values = NullPtr, !.valuesCount = 0, !.err = NullPtr]

\* the caller's h->unsubscribe(), on a handle subscribe has returned
unsubscribe(h) ==
  /\ Step
  /\ heap' = [heap EXCEPT ![h] = Observable_unsubscribe(@)]
  /\ UNCHANGED <<nobs, stage, mem, out, subscriptions, made>>

Next ==
  \/ Cardinality(Roots) < MaxRoots /\ \E value \in OfArgs : of(value)
  \/ Cardinality(Roots) < MaxRoots /\ \E a \in FromArgs : from(a[1], a[2])
  \/ Cardinality(Roots) < MaxRoots /\ \E err \in ThrowErrorArgs : throwError(err)
  \/ Cardinality(Maps) < MaxMaps /\ \E x \in 1..nobs, s \in Stages : map(x, s)
  \/ \E n \in DOMAIN mem, v \in Values : assign(n, v)
  \/ \E x \in 1..nobs, o \in IntObservers : subscribe(x, o)
  \/ \E h \in subscriptions : unsubscribe(h)

Spec == Init /\ [][Next]_vars

\* main's test case 'map' with its calls in any order and number: the
\* Observable is made from series, and mapped, subscribed and unsubscribed
InitMain ==
  /\ heap = [x \in ObsIds |-> Observable]
  /\ nobs = 0
  /\ stage = [s \in Stages |-> IntMapObserver]
  /\ mem = Series
  /\ out = [o \in IntObservers |-> <<>>]
  /\ subscriptions = {}
  /\ fault = FALSE
  /\ call = NoCall
  /\ delivered = {}
  /\ made = [x \in ObsIds |-> <<>>]

NextMain ==
  \/ Cardinality(Roots) < MaxRoots /\ from(CellPtr(1), SeriesCount)
  \/ Cardinality(Maps) < MaxMaps /\ \E x \in 1..nobs, s \in Stages : map(x, s)
  \/ \E x \in 1..nobs, o \in IntObservers : subscribe(x, o)
  \/ \E h \in subscriptions : unsubscribe(h)

SpecMain == InitMain /\ [][NextMain]_vars

\* an array one element of which is the largest int
StageArray == <<3, 1, -2, IntMax>>

InitStages ==
  /\ heap = [x \in ObsIds |-> Observable]
  /\ nobs = 0
  /\ stage = [s \in Stages |-> IntMapObserver]
  /\ mem = StageArray
  /\ out = [o \in IntObservers |-> <<>>]
  /\ subscriptions = {}
  /\ fault = FALSE
  /\ call = NoCall
  /\ delivered = {}
  /\ made = [x \in ObsIds |-> <<>>]

\* a caller that makes one source over any part of the array and maps it
NextDouble ==
  \/ /\ Cardinality(Roots) < MaxRoots
     /\ \E n \in DOMAIN mem, c \in 0..Len(mem) :
          n + c - 1 <= Len(mem) /\ from(CellPtr(n), c)
  \/ Cardinality(Maps) < MaxMaps /\ \E x \in 1..nobs, s \in Stages : map(x, s)
  \/ \E x \in 1..nobs, o \in IntObservers : subscribe(x, o)
  \/ \E h \in subscriptions : unsubscribe(h)

SpecDouble == InitStages /\ [][NextDouble]_vars

\* the (pointer, count) pairs passed to from where stages are reused: the
\* sequences <<3>>, <<3, 1>> and <<3, 1, -2>>
StageFromArgs == {<<CellPtr(1), c>> : c \in 1..3}

\* a caller that makes two sources and maps them through the same stages
NextStages ==
  \/ Cardinality(Roots) < StageRoots /\ \E a \in StageFromArgs : from(a[1], a[2])
  \/ Cardinality(Roots) < StageRoots /\ throwError(CellPtr(1))
  \/ Cardinality(Maps) < StageMaps /\ \E x \in 1..nobs, s \in Stages : map(x, s)
  \/ \E x \in 1..nobs : subscribe(x, 1)
  \/ \E h \in subscriptions : unsubscribe(h)

SpecStages == InitStages /\ [][NextStages]_vars

\* ------------------------------------------------------------- claims
\* the caller's last step was a subscribe, which has returned
Returned == call.target # 0 /\ ~fault

\* the lines IntObserver o printed during the last subscribe
Delta(o) == SubSeq(out[o], Len(call.out0[o]) + 1, Len(out[o]))

\* the observer methods the last subscribe called on IntObserver o
Seen(o) == [k \in 1..Len(Delta(o)) |-> <<Delta(o)[k].m, Delta(o)[k].arg>>]

\* nothing was printed by any observer but the one subscribed
OthersSilent == \A o \in IntObservers \ {call.obs} : Delta(o) = <<>>

\* the last subscribe was made on a live Observable of the given mode
FirstOn(mode) == Returned /\ call.heap0[call.target].subscribeHandler = mode

\* the last subscribe was made on a map of a live Observable of the given mode
FirstOnMapOf(mode) ==
  /\ FirstOn("map")
  /\ call.heap0[heap[call.target].mappingObservable].subscribeHandler = mode

\* the value or error an Observable was made with: what its cell holds, or
\* what the temporary held
ValueOf(p) == IF p.k = "cell" THEN mem[p.a] ELSE p.a
ErrOf(p) == IF p.k = "cell" THEN msg ELSE p.a

\* C1: once a subscribe on an Observable has delivered its emission, a later
\* subscribe on that Observable calls no method of any observer, whichever
\* observer is passed and whatever unsubscribe, map or assignment came between.
C1_CompletedIsSilent ==
  (call.target # 0 /\ call.target \in call.delivered0) => (out = call.out0 /\ ~fault)

\* a subscribe on a map that has delivered, made again with the other observer
C1_Witness ==
  /\ Returned
  /\ call.target \in call.delivered0
  /\ heap[call.target].subscribeHandler = "map"
  /\ out[call.obs] = <<>>
  /\ \E h \in subscriptions : heap[h].values = NullPtr /\ heap[h].err = NullPtr

\* C2: the first subscribe on of(v) calls next(v), then complete(), and
\* nothing else, on the observer.
C2_OfNextComplete ==
  FirstOn("of") =>
    /\ Seen(call.obs) = << <<"next", ValueOf(call.heap0[call.target].values)>>,
                           <<"complete", 0>> >>
    /\ OthersSilent

\* C3: the first subscribe on from(s) calls next once for each element of s,
\* in order and with the element, then complete() once; for the empty s it
\* calls complete() only.
C3_FromNextsComplete ==
  FirstOn("from") =>
    LET o == call.heap0[call.target]
    IN  /\ Seen(call.obs) =
             [k \in 1..(o.valuesCount + 1) |->
                IF k <= o.valuesCount THEN <<"next", mem[o.values.a + k - 1]>>
                ELSE <<"complete", 0>>]
        /\ OthersSilent

\* a from over the whole array, whose elements differ, has been subscribed
C3_Witness ==
  /\ FirstOn("from")
  /\ call.heap0[call.target].valuesCount = MaxLen
  /\ mem[1] # mem[MaxLen]
  /\ Len(Seen(call.obs)) = MaxLen + 1

\* C4: the first subscribe on throwError(e) calls error(e) and then
\* complete(), once each, and never next.
C4_ThrowErrorErrorComplete ==
  FirstOn("throwError") =>
    /\ Seen(call.obs) = << <<"error", ErrOf(call.heap0[call.target].err)>>,
                           <<"complete", 0>> >>
    /\ OthersSilent

Terminal(l) == l.m \in {"error", "complete"}

\* C5: no observer is called with next after it was called with error or
\* complete by the same Observable, be it the one that emitted or the one
\* that was subscribed, in the same or in a later subscription.
C5_NoNextAfterTerminal ==
  \A o \in IntObservers : \A j, k \in 1..Len(out[o]) :
    (j < k /\ Terminal(out[o][j]) /\ out[o][k].m = "next")
      => (out[o][j].root # out[o][k].root /\ out[o][j].via # out[o][k].via)

\* an observer that was called with next and complete has subscribed again
C5_Witness ==
  /\ Returned
  /\ call.target \in call.delivered0
  /\ \E j, k \in 1..Len(out[call.obs]) :
       /\ j < k
       /\ out[call.obs][j].m = "next" /\ out[call.obs][k].m = "complete"
       /\ out[call.obs][k].via = call.target

\* the terminal calls of the last subscribe on IntObserver o
Terminals(o) == SelectSeq(Seen(o), LAMBDA c : c[1] \in {"error", "complete"})

\* C6 as stated: one subscribe call delivers at most one terminal signal.
C6_AtMostOneTerminal ==
  call.target # 0 => \A o \in IntObservers : Len(Terminals(o)) <= 1

\* C6 amended: one subscribe call delivers at most one error and at most one
\* complete; the terminal calls are the last calls of the subscribe; they are
\* complete alone, or error followed by complete when the emitting Observable
\* was made by throwError.
C6_TerminalsOfOneCall ==
  call.target # 0 =>
    \A o \in IntObservers :
      /\ \/ Terminals(o) = <<>>
         \/ \E c \in {<<"complete", 0>>} : Terminals(o) = <<c>>
         \/ /\ Len(Terminals(o)) = 2
            /\ Terminals(o)[1][1] = "error" /\ Terminals(o)[2][1] = "complete"
            /\ call.heap0[call.root].subscribeHandler = "throwError"
      /\ Terminals(o) = SubSeq(Seen(o), Len(Seen(o)) - Len(Terminals(o)) + 1, Len(Seen(o)))

\* a subscribe on a map of a throwError has delivered error and complete
C6_Witness ==
  /\ FirstOnMapOf("throwError")
  /\ Len(Terminals(call.obs)) = 2

\* the stage of the map the last subscribe was made on
StageOf(x) == heap[x].mappingObserver

\* the last subscribe was the first on a map, through a stage as constructed,
\* of a live from over main's series
MapOfSeries ==
  /\ FirstOnMapOf("from")
  /\ call.heap0[heap[call.target].mappingObservable].valuesCount = SeriesCount
  /\ call.stage0[StageOf(call.target)].forward = IntMapObserver.forward

\* C7 as stated: from([1,-2,3,-4,5,-6,7]) mapped with a fresh alternating and
\* doubling stage delivers next(-4), next(-8), next(14), complete().
C7_MapSkipsFirst ==
  MapOfSeries =>
    Seen(call.obs) = << <<"next", -4>>, <<"next", -8>>, <<"next", 14>>, <<"complete", 0>> >>

\* C7 amended: it delivers next(2), next(6), next(10), next(14), complete():
\* the upstream values at the indices 0, 2, 4, 6 doubled, the first one not skipped.
C7_MapForwardsFirst ==
  MapOfSeries =>
    /\ Seen(call.obs) = << <<"next", 2>>, <<"next", 6>>, <<"next", 10>>, <<"next", 14>>,
                           <<"complete", 0>> >>
    /\ OthersSilent

\* the mapped series has been subscribed and has printed
C7_Witness == MapOfSeries /\ Len(Seen(call.obs)) > 0 /\ call.nextCalls = SeriesCount

\* C8: the first subscribe on throwError(e).map(stage) delivers error(e) and
\* then complete() to the observer, e unchanged, and never enters the stage's
\* next, so the stage's forward flag is as before.
C8_MappedErrorPropagates ==
  FirstOnMapOf("throwError") =>
    /\ Seen(call.obs) =
         << <<"error", ErrOf(call.heap0[heap[call.target].mappingObservable].err)>>,
            <<"complete", 0>> >>
    /\ OthersSilent
    /\ call.nextCalls = 0
    /\ \A s \in Stages : stage[s].forward = call.stage0[s].forward

\* the last subscribe was made on a map whose upstream had completed
OnMapOfCompleted ==
  /\ call.target # 0
  /\ call.heap0[call.target].subscribeHandler = "map"
  /\ call.heap0[Upstream(call.target)].subscribeHandler = "nullptr"

\* C9: a subscribe on a map whose upstream has completed, however the upstream
\* was exhausted, calls no method of any observer and none of any stage.
C9_MapOfCompletedIsSilent ==
  OnMapOfCompleted => (out = call.out0 /\ call.stageCalls = 0 /\ ~fault)

\* a map that never delivered is subscribed after a subscribe on its upstream
\* itself has exhausted the upstream
C9_Witness ==
  /\ OnMapOfCompleted
  /\ call.target \notin call.delivered0
  /\ \E o \in IntObservers : \E k \in 1..Len(out[o]) :
       out[o][k].via = Upstream(call.target)

\* C10: unsubscribe never faults and calls no observer, and a second
\* unsubscribe on the same handle changes nothing: the state after the call is
\* the state one more unsubscribe leaves.
C10_UnsubscribeIdempotent ==
  [][\A h \in subscriptions :
       unsubscribe(h) =>
         /\ heap' = [heap' EXCEPT ![h] = Observable_unsubscribe(@)]
         /\ \A x \in ObsIds \ {h} : heap'[x] = heap[x]
         /\ heap'[h].subscribeHandler = heap[h].subscribeHandler
         /\ out' = out /\ stage' = stage /\ mem' = mem
         /\ subscriptions' = subscriptions
         /\ ~fault']_vars

\* unsubscribe has cleared the values of a from that held some
C10_Witness ==
  /\ call = NoCall
  /\ \E h \in subscriptions :
       /\ heap[h].mappingObservable = 0
       /\ heap[h].values = NullPtr
       /\ \E o \in IntObservers : \E k \in 1..Len(out[o]) :
            out[o][k].root = h /\ out[o][k].m = "next"

\* C11: in every mode, Mapped included, the Subscription that X.subscribe
\* returns is X itself, whether X was live or had completed.
C11_SubscriptionBoundToTarget == Returned => call.ret = call.target

\* what x->subscribe(o) would do in the current state
Emission(x, o, und) == Observable_subscribe(Enter(x, und), x, IntObs(o), und)

\* the observer methods a subscribe S called on IntObserver o
Calls(S, o) ==
  [k \in 1..(Len(S.out[o]) - Len(out[o])) |->
     <<S.out[o][Len(out[o]) + k].m, S.out[o][Len(out[o]) + k].arg>>]

\* C12: map is lazy. U.map(stage) prints nothing, enters no stage, faults
\* nothing and changes no field of any Observable that exists nor of any
\* stage, so U is as live as before; a subscribe on U after the map makes the
\* calls it would have made before it, and a subscribe on the map of a source
\* U enters the stage once for each call U would have made on the observer.
C12_MapIsLazy ==
  [][\A x \in 1..nobs, s \in Stages :
       map(x, s) =>
         /\ out' = out /\ stage' = stage /\ mem' = mem /\ fault' = fault
         /\ delivered' = delivered /\ subscriptions' = subscriptions
         /\ \A y \in 1..nobs : heap'[y] = heap[y]
         /\ \A o \in IntObservers, und \in Values \cup Errs :
              LET before == Emission(x, o, und)
                  after == Emission(x, o, und)'
                  mapped == Emission(nobs, o, und)'   \* nobs' is the map
              IN  /\ after.fault = before.fault
                  /\ after.out = before.out
                  /\ after.stage = before.stage
                  /\ after.ret = before.ret
                  /\ (heap[x].mappingObservable = 0 /\ ~before.fault) =>
                       /\ ~mapped.fault
                       /\ mapped.root = before.root
                       /\ mapped.stageCalls = Len(Calls(before, o))]_vars

\* a from of two elements was mapped and then subscribed itself for the first
\* time, and has delivered both elements
C12_Witness ==
  /\ FirstOn("from")
  /\ \E y \in 1..nobs : call.heap0[y].mappingObservable = call.target
  /\ Len(Seen(call.obs)) = MaxLen + 1

\* C13: a subscribe on an Observable whose emission has been delivered has no
\* side effect at all: no observer call, and every field of every Observable
\* and of every stage, the stage's observer reference included, is as before.
C13_CompletedHasNoSideEffects ==
  (call.target # 0 /\ call.target \in call.delivered0) =>
    (out = call.out0 /\ heap = call.heap0 /\ stage = call.stage0 /\ ~fault)

\* C14: when a subscribe on a Mapped Observable has driven its upstream to
\* completion and returned, the Mapped Observable's own subscribe handler is
\* cleared, and a later subscribe on it enters no subscribe but its own.
C14_MappedMarkedCompleted ==
  /\ (FirstOn("map") /\ call.root # 0) => heap[call.target].subscribeHandler = "nullptr"
  /\ (Returned /\ call.target \in call.delivered0) => call.chain = {call.target}

\* C15: an of, from or throwError Observable is marked completed only after
\* the complete callback has returned and before subscribe returns: whenever
\* an observer ran a next, error or complete of an emission, the emitting
\* Observable still had its subscribe handler, and when the subscribe that
\* emitted has returned the handler is cleared.
C15_CompletedAfterComplete ==
  /\ \A o \in IntObservers : \A k \in 1..Len(out[o]) : out[o][k].live
  /\ (Returned /\ call.root # 0) =>
       /\ call.heap0[call.root].subscribeHandler \in {"of", "from", "throwError"}
       /\ heap[call.root].subscribeHandler = "nullptr"

\* a throwError Observable has called error and complete and has returned
C15_Witness ==
  /\ FirstOn("throwError")
  /\ Len(Delta(call.obs)) = 2
  /\ Delta(call.obs)[2].m = "complete" /\ Delta(call.obs)[2].live
  /\ heap[call.target].subscribeHandler = "nullptr"

\* the values an of or from Observable o refers to in the caller's array m
Stored(o, m) ==
  IF o.subscribeHandler = "of" THEN <<m[o.values.a]>>
  ELSE [k \in 1..o.valuesCount |-> m[o.values.a + k - 1]]

\* the arguments of the next calls the last subscribe made on IntObserver o
Nexts(o) ==
  LET n == SelectSeq(Seen(o), LAMBDA c : c[1] = "next")
  IN  [k \in 1..Len(n) |-> n[k][2]]

\* the last subscribe was the first on an of or from Observable that refers to
\* the caller's array, parts of which the caller has overwritten since the
\* Observable was made
FirstOnOverwritten(mode) ==
  /\ FirstOn(mode)
  /\ call.heap0[call.target].values.k = "cell"
  /\ Stored(call.heap0[call.target], call.made0[call.target])
       # Stored(call.heap0[call.target], mem)

\* C16: of and from keep a reference to the caller's storage, not a copy: when
\* the caller has overwritten the storage between construction and the first
\* subscribe, the observer receives the values the storage holds at the
\* subscribe and not those it held at construction.
C16_AliasesCallerStorage ==
  \A mode \in {"of", "from"} :
    FirstOnOverwritten(mode) =>
      /\ Nexts(call.obs) = Stored(call.heap0[call.target], mem)
      /\ Nexts(call.obs) # Stored(call.heap0[call.target], call.made0[call.target])

\* an of Observable made on an element of the array has emitted after the
\* caller had overwritten the element
C16_Witness ==
  /\ FirstOnOverwritten("of")
  /\ Len(Nexts(call.obs)) = 1
  /\ \E n \in DOMAIN mem :
       call.heap0[call.target].values = CellPtr(n) /\ call.made0[call.target][n] # mem[n]

\* C17: a stage's forward flag is toggled once for each next call the stage
\* receives and is changed by nothing else: a step of the caller that is not a
\* subscribe (of, from, throwError, map, unsubscribe) leaves every flag as it
\* was, and a subscribe that returns leaves each stage's flag as it found it
\* when the stage received an even number of next calls, error and complete
\* calls not counted, and inverted when it received an odd number. So a stage
\* used again starts with the flag its last use left.
C17_ForwardToggledPerNext ==
  [][~fault' =>
       \A s \in Stages :
         stage'[s].forward =
           IF call'.target = 0 THEN stage[s].forward
           ELSE (stage[s].forward = (call'.nextOn[s] % 2 = 0))]_vars

\* a stage that was left in its skipping state by a first mapped subscription
\* has been used by a second one, on another source of one element: the
\* element was skipped, complete alone was delivered, and the stage forwards again
C17_Witness ==
  /\ FirstOnMapOf("from")
  /\ call.stage0[StageOf(call.target)].forward = FALSE
  /\ call.nextOn[StageOf(call.target)] = 1
  /\ Seen(call.obs) = << <<"complete", 0>> >>
  /\ stage[StageOf(call.target)].forward = TRUE

\* the last subscribe was the first on a map of a live from, through a stage
\* whose forward flag was true
FreshMapOfFrom ==
  /\ FirstOnMapOf("from")
  /\ call.stage0[StageOf(call.target)].forward

\* the sequence the upstream of the subscribed map was made from
UpstreamSeq == Stored(call.heap0[heap[call.target].mappingObservable], mem)

\* arg is the integer 2 * v
IsDouble(arg, v) == arg % 2 = 0 /\ arg \div 2 = v

\* the calls are next(2 * s[i]) for the 0-based positions i = 0, 2, 4, ... of
\* s in order, ceil(|s| / 2) of them, and then complete once
DoublesEverySecond(calls, s) ==
  LET h == (Len(s) + 1) \div 2
  IN  /\ Len(calls) = h + 1
      /\ \A k \in 1..h : calls[k][1] = "next" /\ IsDouble(calls[k][2], s[2 * k - 1])
      /\ calls[h + 1] = <<"complete", 0>>

\* C18 as stated: for every sequence s and a fresh stage, the first subscribe
\* on from(s).map(stage) delivers next(2 * s[i]) for i = 0, 2, 4, ... and
\* then complete once.
C18_MapDoublesEverySecond ==
  FreshMapOfFrom => (DoublesEverySecond(Seen(call.obs), UpstreamSeq) /\ OthersSilent)

\* C18 amended: it does so for every sequence s whose elements at the
\* positions 0, 2, 4, ... have a double that fits an int.
C18_MapDoublesEverySecondInt ==
  (/\ FreshMapOfFrom
   /\ \A k \in 1..((Len(UpstreamSeq) + 1) \div 2) : ~Overflows(UpstreamSeq[2 * k - 1]))
    => (DoublesEverySecond(Seen(call.obs), UpstreamSeq) /\ OthersSilent)

\* from(<<3, 1, -2>>) mapped through a fresh stage has delivered next(6),
\* next(-4) and complete
C18_Witness ==
  /\ FreshMapOfFrom
  /\ UpstreamSeq = <<3, 1, -2>>
  /\ Seen(call.obs) = << <<"next", 6>>, <<"next", -4>>, <<"complete", 0>> >>
  /\ call.nextCalls = 3

\* C19: every Subscription handle the caller can hold refers to an Observable
\* that has completed: the handle a subscribe returns is the source at the
\* upstream end of the subscribed Observable's chain, and its subscribe
\* handler is cleared when subscribe returns. So unsubscribe, which takes such
\* a handle, clears no reference of a live Observable, and every live of
\* Observable has its value reference and every live throwError Observable its
\* error reference, as every live from Observable has its array: none emits
\* through a null reference.
C19_HandlesAreCompleted ==
  /\ \A h \in subscriptions :
       /\ h \in 1..nobs
       /\ heap[h].mappingObservable = 0
       /\ heap[h].subscribeHandler = "nullptr"
  /\ Returned => (call.ret = Upstream(call.target) /\ call.ret \in subscriptions)
  /\ \A x \in 1..nobs :
       /\ heap[x].subscribeHandler = "of" => heap[x].values # NullPtr
       /\ heap[x].subscribeHandler = "throwError" => heap[x].err # NullPtr
       /\ heap[x].subscribeHandler = "from" => heap[x].values # NullPtr

\* the first subscribe on a map of a map has returned: the handle is the
\* source two Observables upstream, which has emitted and is completed
C19_Witness ==
  /\ FirstOn("map")
  /\ call.root # 0
  /\ call.ret = call.root
  /\ call.ret \in subscriptions
  /\ Cardinality(call.chain) = 3
  /\ heap[call.ret].subscribeHandler = "nullptr"
  /\ heap[call.target].subscribeHandler = "map"

====
